---- MODULE Spec2Model ----
(***************************************************************************)
(* A model of event_bot.py: the four ConversationHandler flows (add, file, *)
(* edit, delete) registered by main(), their handler callbacks, the plain  *)
(* handlers of /start, /list, /today and the page buttons, the per-user    *)
(* user_data dictionary and the single sqlite table "events".              *)
(*                                                                         *)
(* A message text is a sequence of one-character strings.  A conversation  *)
(* of a ConversationHandler is keyed by the user (one private chat per     *)
(* user); a user with no conversation in a handler is at END, as           *)
(* ConversationHandler pops the key when a callback returns END.           *)
(***************************************************************************)
EXTENDS Integers, Sequences, FiniteSets, TLC

\* ------------------------------------------------------------------------
\* Bounds of the model
\* ------------------------------------------------------------------------
\* Rows the events table may hold when the Add conversation saves one more.
MaxEvents == 3
\* Inbound updates delivered since the process started, when every user sends.
MaxUpdates == 5
\* The same, when user 1 alone sends (the other user only owns events).
MaxSoloUpdates == 6
\* Ticks of the wall clock (half minutes past 2030-01-01 00:00).
MaxClock == 1

\* ------------------------------------------------------------------------
\* Conversation states (event_bot.py:32-43) and ConversationHandler.END
\* ------------------------------------------------------------------------
GET_DATETIME == 0
GET_TEXT == 1
GET_FILE == 2
GET_EVENT_ID == 3
GET_EDIT_ID == 4
EDIT_CHOICE == 5
EDIT_DATETIME == 6
EDIT_TEXT == 7
EDIT_FILE == 8
CONFIRM_DELETE == 9
END == -1

\* Python's None where the value is otherwise a sequence (a text, a datetime,
\* a fetched row kept as <<row>>, an id kept as <<n>>); also a key that
\* user_data does not hold.
None == <<>>
\* SQL NULL / Python's None in the str-valued columns file_id, file_type, file_name.
NULL == "NULL"

\* ------------------------------------------------------------------------
\* Python text primitives
\* ------------------------------------------------------------------------
Digits == <<"0", "1", "2", "3", "4", "5", "6", "7", "8", "9">>
IsDigit(c) == \E i \in 1..10 : Digits[i] = c
DigitVal(c) == (CHOOSE i \in 1..10 : Digits[i] = c) - 1
DigitChar(n) == Digits[n + 1]
IsSpace(c) == c = " "

\* s[a:b] for 0 <= a <= b
Slice(s, a, b) ==
    LET hi == IF b < Len(s) THEN b ELSE Len(s)
    IN  IF a >= hi THEN <<>> ELSE SubSeq(s, a + 1, hi)

\* s[a:b] for any integers a, b: a negative index counts from the end
PySlice(s, a, b) ==
    LET n == Len(s)
        lo0 == IF a < 0 THEN n + a ELSE a
        hi0 == IF b < 0 THEN n + b ELSE b
        lo == IF lo0 < 0 THEN 0 ELSE IF lo0 > n THEN n ELSE lo0
        hi == IF hi0 < 0 THEN 0 ELSE IF hi0 > n THEN n ELSE hi0
    IN  IF lo >= hi THEN <<>> ELSE SubSeq(s, lo + 1, hi)

\* the order of characters (code points) among space, the digits and the rest
Ord(c) == IF c = " " THEN 0 ELSE IF IsDigit(c) THEN DigitVal(c) + 1 ELSE 11

\* a < b on str, as sqlite's BINARY collation and Python compare them
RECURSIVE StrLess(_, _)
StrLess(a, b) ==
    IF b = <<>> THEN FALSE
    ELSE IF a = <<>> THEN TRUE
    ELSE IF Head(a) # Head(b) THEN Ord(Head(a)) < Ord(Head(b))
    ELSE StrLess(Tail(a), Tail(b))

RECURSIVE LStrip(_)
LStrip(s) == IF s # <<>> /\ IsSpace(Head(s)) THEN LStrip(Tail(s)) ELSE s

RECURSIVE RStrip(_)
RStrip(s) ==
    IF s # <<>> /\ IsSpace(s[Len(s)]) THEN RStrip(SubSeq(s, 1, Len(s) - 1)) ELSE s

Strip(s) == RStrip(LStrip(s))

\* str.split(): the maximal runs of non-whitespace characters
RECURSIVE SplitAcc(_, _, _)
SplitAcc(s, cur, acc) ==
    IF s = <<>>
    THEN IF cur = <<>> THEN acc ELSE Append(acc, cur)
    ELSE IF IsSpace(Head(s))
         THEN SplitAcc(Tail(s), <<>>, IF cur = <<>> THEN acc ELSE Append(acc, cur))
         ELSE SplitAcc(Tail(s), Append(cur, Head(s)), acc)

Split(s) == SplitAcc(s, <<>>, <<>>)

\* The digits of an int literal: digits, single underscores between them.
IntBodyOk(b) ==
    /\ b # <<>>
    /\ IsDigit(b[1])
    /\ IsDigit(b[Len(b)])
    /\ \A i \in 1..Len(b) :
          IsDigit(b[i]) \/ (b[i] = "_" /\ i > 1 /\ IsDigit(b[i - 1]))

RECURSIVE IntBodyVal(_, _)
IntBodyVal(b, acc) ==
    IF b = <<>> THEN acc
    ELSE IF Head(b) = "_" THEN IntBodyVal(Tail(b), acc)
         ELSE IntBodyVal(Tail(b), 10 * acc + DigitVal(Head(b)))

\* int(s): <<n>>, or ValueError
ValueError == <<>>
PyInt(s) ==
    LET t == Strip(s)
        signed == t # <<>> /\ t[1] \in {"+", "-"}
        body == IF signed THEN Tail(t) ELSE t
    IN  IF ~IntBodyOk(body) THEN ValueError
        ELSE IF signed /\ t[1] = "-" THEN << 0 - IntBodyVal(body, 0) >>
             ELSE << IntBodyVal(body, 0) >>

\* ------------------------------------------------------------------------
\* datetime: <<year, month, day, hour, minute, second, microsecond>>
\* ------------------------------------------------------------------------
IsLeap(y) == (y % 4 = 0 /\ y % 100 # 0) \/ y % 400 = 0

DaysInMonth(y, m) ==
    IF m = 2 THEN (IF IsLeap(y) THEN 29 ELSE 28)
    ELSE IF m \in {4, 6, 9, 11} THEN 30 ELSE 31

\* datetime(year, month, day, hour, minute) raises ValueError out of range
DatetimeOk(y, mo, d, h, mi) ==
    /\ y \in 1..9999
    /\ mo \in 1..12
    /\ d >= 1 /\ d <= DaysInMonth(y, mo)
    /\ h \in 0..23
    /\ mi \in 0..59

\* a < b on datetimes
RECURSIVE LexLess(_, _)
LexLess(a, b) ==
    IF a = <<>> \/ b = <<>> THEN FALSE
    ELSE IF Head(a) # Head(b) THEN Head(a) < Head(b)
         ELSE LexLess(Tail(a), Tail(b))

DtLess(a, b) == LexLess(a, b)

parse_datetime(datetime_str) ==
    LET parts == Split(datetime_str)
    IN  IF Len(parts) # 2 THEN None
        ELSE
          LET date_part == parts[1]
              time_part == parts[2]
              day == PyInt(Slice(date_part, 0, 2))
              month == PyInt(Slice(date_part, 2, 4))
              yy == PyInt(Slice(date_part, 4, 6))
              hour == PyInt(Slice(time_part, 0, 2))
              minute == PyInt(Slice(time_part, 2, 4))
          IN  IF ValueError \in {day, month, yy, hour, minute} THEN None
              ELSE IF ~DatetimeOk(2000 + yy[1], month[1], day[1], hour[1], minute[1])
                   THEN None
                   ELSE <<2000 + yy[1], month[1], day[1], hour[1], minute[1], 0, 0>>

TwoDigits(n) == <<DigitChar((n \div 10) % 10), DigitChar(n % 10)>>

\* mutant: strftime("%d%m%Y %H%M"), the year with its century
format_datetime_century(dt) ==
    TwoDigits(dt[3]) \o TwoDigits(dt[2]) \o TwoDigits(dt[1] \div 100) \o TwoDigits(dt[1] % 100)
      \o <<" ">> \o TwoDigits(dt[4]) \o TwoDigits(dt[5])

\* strftime("%d%m%y %H%M")
format_datetime(dt) ==
    TwoDigits(dt[3]) \o TwoDigits(dt[2]) \o TwoDigits(dt[1] % 100)
      \o <<" ">> \o TwoDigits(dt[4]) \o TwoDigits(dt[5])

FourDigits(n) == TwoDigits(n \div 100) \o TwoDigits(n % 100)

\* datetime.strptime(dt_str, "%d%m%y %H%M"), for the fixed-width text that
\* strftime("%d%m%y %H%M") writes (the only texts the table holds); %y reads
\* 69..99 as 1969..1999.  Any other text is taken as not matching.
strptime(dt_str) ==
    IF ~( /\ Len(dt_str) = 11
          /\ dt_str[7] = " "
          /\ \A i \in (1..11) \ {7} : IsDigit(dt_str[i]) )
    THEN ValueError
    ELSE LET n2(i) == 10 * DigitVal(dt_str[i]) + DigitVal(dt_str[i + 1])
             yy == n2(5)
             year == IF yy <= 68 THEN 2000 + yy ELSE 1900 + yy
         IN  IF DatetimeOk(year, n2(3), n2(1), n2(8), n2(10))
             THEN <<year, n2(3), n2(1), n2(8), n2(10), 0, 0>>
             ELSE ValueError

\* strftime("%d.%m.%Y %H:%M") of the re-parsed text, or the text itself
format_display_datetime(dt_str) ==
    LET dt == strptime(dt_str)
    IN  IF dt = ValueError THEN dt_str
        ELSE TwoDigits(dt[3]) \o <<".">> \o TwoDigits(dt[2]) \o <<".">> \o FourDigits(dt[1])
               \o <<" ">> \o TwoDigits(dt[4]) \o <<":">> \o TwoDigits(dt[5])

\* ------------------------------------------------------------------------
\* State
\* ------------------------------------------------------------------------
VARIABLES
    db,             \* the events table: rows, seq (sqlite's AUTOINCREMENT), and ok:
                    \* whether sqlite3 serves a statement or raises sqlite3.Error
    conversations,  \* per ConversationHandler, per user: the conversation state
    user_data,      \* context.user_data per user
    clock,          \* datetime.now(), in half minutes past 2030-01-01 00:00
    nupd,           \* updates delivered so far
    env,            \* this run: who sends, how many updates, which texts, how long
    last,           \* the last update handled: user, handler and what was sent
    addDraft,       \* history: the inputs the running Add conversation accepted, and
                    \* the tick at which it accepted the date-time
    editTarget      \* history: the id the Edit conversation resolved for its user

vars == <<db, conversations, user_data, clock, nupd, env, last, addDraft, editTarget>>

Users == {1, 2}
ConvHandlers ==
    {"conv_handler_add", "conv_handler_file", "conv_handler_edit", "conv_handler_delete"}

\* datetime.now(): an even tick is exactly on the minute, an odd one past it
NowAt(c) == <<2030, 1, 1, 0, c \div 2, 0, c % 2>>
Now == NowAt(clock)

\* ------------------------------------------------------------------------
\* Inbound updates
\* ------------------------------------------------------------------------
Command(name) == [kind |-> "command", name |-> name, text |-> <<>>, att |-> NULL]
TextMsg(t) == [kind |-> "text", name |-> NULL, text |-> t, att |-> NULL]
AttMsg(a) == [kind |-> "attachment", name |-> NULL, text |-> <<>>, att |-> a]
Callback(data) == [kind |-> "callback", name |-> data, text |-> <<>>, att |-> NULL]

\* "DDMMYY HHMM" of 2030-01-01 00:0m, as the table holds it
DtText(m) == <<"0", "1", "0", "1", "3", "0", " ", "0", "0", "0", DigitChar(m)>>
\* the same date-time typed with two spaces between the date and the time
DtSpaced(m) == <<"0", "1", "0", "1", "3", "0", " ", " ", "0", "0", "0", DigitChar(m)>>
IdText(n) == <<DigitChar(n)>>

\* the texts users send: three integers (ids 1 and 2 are in the table from the
\* start, id 3 is not) and two date-times, which are not integers
Texts == {IdText(1), IdText(2), IdText(3), DtText(0), DtSpaced(1)}

\* the attachment of a message: what update.message.document / photo / audio /
\* voice hold; "video" stands for the attachments the bot does not support
Attachments == {"document", "photo", "audio", "voice", "video"}
AttFileId(a) == IF a = "document" THEN "doc_id"
                ELSE IF a = "photo" THEN "photo_id"
                ELSE IF a = "audio" THEN "audio_id"
                ELSE "voice_id"
\* document.file_name / audio.file_name (optional in the Bot API)
AttFileName(a) == IF a = "document" THEN "a.pdf" ELSE NULL

\* callback_data of the buttons the bot sends
EditPattern == {"edit_datetime", "edit_text", "edit_file", "edit_event"}
ConfirmPattern == {"confirm_del_1", "confirm_del_2", "cancel_del"}
PagePattern == {"prev_page", "next_page"}

\* one update of each kind, sent at a moment when no handler may accept it
Probes == {Command("skip"), TextMsg(IdText(1)), AttMsg("document"), Callback("delete_event")}


\* ------------------------------------------------------------------------
\* The events table (init_db) and the SQL statements of the handlers
\* ------------------------------------------------------------------------
Row(id, user_id, dt, text, file_id, file_type, file_name) ==
    [id |-> id, user_id |-> user_id, datetime |-> dt, event_text |-> text,
     file_id |-> file_id, file_type |-> file_type, file_name |-> file_name]

\* INSERT INTO events (...) VALUES (...): id from AUTOINCREMENT
SqlInsert(d, user_id, dt, text, file_id, file_type, file_name) ==
    [d EXCEPT !.rows = Append(d.rows, Row(d.seq + 1, user_id, dt, text, file_id,
                                          file_type, file_name)),
              !.seq = d.seq + 1]

\* mutant: the lookup without its "AND user_id = ?"
SqlSelectOwned_any_owner(d, id, user_id) ==
    LET hits == {i \in 1..Len(d.rows) : d.rows[i].id = id}
    IN  IF hits = {} THEN None ELSE <<d.rows[CHOOSE i \in hits : TRUE]>>

\* SELECT ... FROM events WHERE id = ? AND user_id = ? ; fetchone(): <<row>> or None
SqlSelectOwned(d, id, user_id) ==
    LET hits == {i \in 1..Len(d.rows) : d.rows[i].id = id /\ d.rows[i].user_id = user_id}
    IN  IF hits = {} THEN None ELSE <<d.rows[CHOOSE i \in hits : TRUE]>>

\* SELECT ... FROM events WHERE id = ? ; fetchone()
SqlSelectById(d, id) ==
    LET hits == {i \in 1..Len(d.rows) : d.rows[i].id = id}
    IN  IF hits = {} THEN None ELSE <<d.rows[CHOOSE i \in hits : TRUE]>>

\* SELECT ... FROM events WHERE user_id = ? : whether fetchall() is non-empty
SqlHasEvents(d, user_id) == \E i \in 1..Len(d.rows) : d.rows[i].user_id = user_id

\* UPDATE events SET datetime = ? WHERE id = ?
SqlUpdateDatetime(d, id, dt) ==
    [d EXCEPT !.rows = [i \in 1..Len(d.rows) |->
        IF d.rows[i].id = id THEN [d.rows[i] EXCEPT !.datetime = dt] ELSE d.rows[i]]]

\* UPDATE events SET event_text = ? WHERE id = ?
SqlUpdateText(d, id, text) ==
    [d EXCEPT !.rows = [i \in 1..Len(d.rows) |->
        IF d.rows[i].id = id THEN [d.rows[i] EXCEPT !.event_text = text] ELSE d.rows[i]]]

\* mutant: the UPDATE sets the file_id column only
SqlUpdateFile_id_only(d, id, file_id, file_type, file_name) ==
    [d EXCEPT !.rows = [i \in 1..Len(d.rows) |->
        IF d.rows[i].id = id THEN [d.rows[i] EXCEPT !.file_id = file_id] ELSE d.rows[i]]]

\* UPDATE events SET file_id = ?, file_type = ?, file_name = ? WHERE id = ?
SqlUpdateFile(d, id, file_id, file_type, file_name) ==
    [d EXCEPT !.rows = [i \in 1..Len(d.rows) |->
        IF d.rows[i].id = id
        THEN [d.rows[i] EXCEPT !.file_id = file_id, !.file_type = file_type,
                               !.file_name = file_name]
        ELSE d.rows[i]]]

RECURSIVE RowsWithout(_, _)
RowsWithout(rows, id) ==
    IF rows = <<>> THEN <<>>
    ELSE IF Head(rows).id = id THEN RowsWithout(Tail(rows), id)
         ELSE <<Head(rows)>> \o RowsWithout(Tail(rows), id)

\* DELETE FROM events WHERE id = ?
SqlDelete(d, id) == [d EXCEPT !.rows = RowsWithout(d.rows, id)]

\* ------------------------------------------------------------------------
\* What a handler callback does: the state it returns to ConversationHandler
\* (next: the conversation's state after _update_state, so a callback that
\* returns None or raises keeps the state `cur`), the channel operations it
\* awaited (out), the user's user_data and the table after it.
\* ------------------------------------------------------------------------
Reply(msg) == [op |-> "reply_text", body |-> msg, file_id |-> NULL]
SendFile(op, file_id, caption) == [op |-> op, body |-> caption, file_id |-> file_id]

Result(next, out, ud, d) == [next |-> next, out |-> out, ud |-> ud, db |-> d]

\* an exception leaves the callback: nothing is returned; what was sent and
\* written before it stays
Raised(cur, out, ud, d) == Result(cur, out, ud, d)

add_event(ud, d) ==
    Result(GET_DATETIME, <<Reply("ask_datetime")>>, ud, d)

\* mutant: user_data.setdefault("datetime", ...): a draft already there stays
get_datetime_setdefault(text, now, ud, d) ==
    LET dt == parse_datetime(text)
    IN  IF dt = None
        THEN Result(GET_DATETIME, <<Reply("bad_format")>>, ud, d)
        ELSE IF DtLess(dt, now)
             THEN Result(GET_DATETIME, <<Reply("must_be_future")>>, ud, d)
             ELSE Result(GET_TEXT, <<Reply("ask_text")>>,
                         IF ud.datetime = None
                         THEN [ud EXCEPT !.datetime = format_datetime(dt)]
                         ELSE ud, d)

get_datetime(text, now, ud, d) ==
    LET dt == parse_datetime(text)
    IN  IF dt = None
        THEN Result(GET_DATETIME, <<Reply("bad_format")>>, ud, d)
        ELSE IF DtLess(dt, now)
             THEN Result(GET_DATETIME, <<Reply("must_be_future")>>, ud, d)
             ELSE Result(GET_TEXT, <<Reply("ask_text")>>,
                         [ud EXCEPT !.datetime = format_datetime(dt)], d)

get_text(text, ud, d) ==
    Result(GET_FILE, <<Reply("ask_file")>>, [ud EXCEPT !.text = text], d)

\* save_event: sqlite3.Error when the database fails, KeyError when the draft
\* lacks a key; neither is caught
save_event(cur, user_id, ud, d, file_id, file_type, file_name) ==
    IF ~d.ok \/ ud.datetime = None \/ ud.text = None
    THEN Raised(cur, <<>>, ud, d)
    ELSE Result(END,
                <<Reply(IF file_id # NULL THEN "saved_with_file" ELSE "saved")>>,
                ud,
                SqlInsert(d, user_id, ud.datetime, ud.text, file_id, file_type, file_name))

\* the if/elif chain over message.document / photo / audio / voice
AttFileType(a) == IF a \in {"document", "photo", "audio", "voice"} THEN a ELSE NULL
AttPickedId(a) == IF AttFileType(a) = NULL THEN NULL ELSE AttFileId(a)
AttPickedName(a) == IF a \in {"document", "audio"} THEN AttFileName(a) ELSE NULL

get_file_attachment(cur, user_id, a, ud, d) ==
    IF AttPickedId(a) # NULL
    THEN save_event(cur, user_id, ud, d, AttPickedId(a), AttFileType(a), AttPickedName(a))
    ELSE Result(GET_FILE, <<Reply("unsupported_file")>>, ud, d)

skip_file(cur, user_id, ud, d) ==
    save_event(cur, user_id, ud, d, NULL, NULL, NULL)

request_file(ud, d) ==
    Result(GET_EVENT_ID, <<Reply("ask_event_id")>>, ud, d)

handle_file_button(ud, d) ==
    Result(GET_EVENT_ID, <<Reply("ask_event_id")>>, ud, d)

\* mutant: every kind is sent with reply_document
ReplyMethod_document(file_type) == "reply_document"

ReplyMethod(file_type) ==
    IF file_type = "document" THEN "reply_document"
    ELSE IF file_type = "photo" THEN "reply_photo"
    ELSE IF file_type = "audio" THEN "reply_audio"
    ELSE "reply_voice"

get_event_id(user_id, text, ud, d) ==
    LET event_id == PyInt(text)
    IN  IF event_id = ValueError
        THEN Result(GET_EVENT_ID, <<Reply("need_numeric_id")>>, ud, d)
        ELSE
          LET file == SqlSelectOwned(d, event_id[1], user_id)
          IN  IF ~d.ok
              THEN Result(END, <<Reply("error_fetching_file")>>, ud, d)
              ELSE IF file = None
              THEN Result(END, <<Reply("file_not_found")>>, ud, d)
              ELSE
                LET row == file[1]
                    caption == IF row.file_name = NULL THEN "file_of_event"
                               ELSE row.file_name
                IN  IF row.file_type \in {"document", "photo", "audio", "voice"}
                    THEN Result(END,
                                <<SendFile(ReplyMethod(row.file_type), row.file_id, caption)>>,
                                ud, d)
                    ELSE Result(END, <<>>, ud, d)

edit_event(user_id, ud, d) ==
    IF ~d.ok THEN Raised(END, <<>>, ud, d)
    ELSE IF ~SqlHasEvents(d, user_id)
    THEN Result(END, <<Reply("no_events_to_edit")>>, ud, d)
    ELSE Result(GET_EDIT_ID, <<Reply("choose_event_to_edit")>>, ud, d)

delete_event(user_id, ud, d) ==
    IF ~d.ok THEN Raised(END, <<>>, ud, d)
    ELSE IF ~SqlHasEvents(d, user_id)
    THEN Result(END, <<Reply("no_events_to_delete")>>, ud, d)
    ELSE Result(GET_EDIT_ID, <<Reply("choose_event_to_delete")>>, ud, d)

\* mutant: an id that is not found asks again, as a non-numeric text does
get_edit_id_asks_again(user_id, text, ud, d) ==
    LET event_id == PyInt(text)
    IN  IF event_id = ValueError
        THEN Result(GET_EDIT_ID, <<Reply("need_numeric_id")>>, ud, d)
        ELSE
          LET ud1 == [ud EXCEPT !.edit_id = event_id]
              event == SqlSelectOwned(d, event_id[1], user_id)
          IN  IF ~d.ok THEN Raised(GET_EDIT_ID, <<>>, ud1, d)
              ELSE IF event = None
              THEN Result(GET_EDIT_ID, <<Reply("event_not_found")>>, ud1, d)
              ELSE Result(EDIT_CHOICE, <<Reply("what_to_change")>>, ud1, d)

get_edit_id(user_id, text, ud, d) ==
    LET event_id == PyInt(text)
    IN  IF event_id = ValueError
        THEN Result(GET_EDIT_ID, <<Reply("need_numeric_id")>>, ud, d)
        ELSE
          LET ud1 == [ud EXCEPT !.edit_id = event_id]
              event == SqlSelectOwned(d, event_id[1], user_id)
          IN  IF ~d.ok THEN Raised(GET_EDIT_ID, <<>>, ud1, d)
              ELSE IF event = None
              THEN Result(END, <<Reply("event_not_found")>>, ud1, d)
              ELSE Result(EDIT_CHOICE, <<Reply("what_to_change")>>, ud1, d)

edit_choice(cur, choice, ud, d) ==
    IF ud.edit_id = None THEN Raised(cur, <<>>, ud, d)
    ELSE IF choice = "edit_datetime"
         THEN Result(EDIT_DATETIME, <<Reply("ask_new_datetime")>>, ud, d)
    ELSE IF choice = "edit_text"
         THEN Result(EDIT_TEXT, <<Reply("ask_new_text")>>, ud, d)
    ELSE IF choice = "edit_file"
         THEN Result(EDIT_FILE, <<Reply("ask_new_file")>>, ud, d)
    ELSE Result(cur, <<>>, ud, d)

edit_datetime(cur, text, now, ud, d) ==
    LET dt == parse_datetime(text)
    IN  IF dt = None
        THEN Result(EDIT_DATETIME, <<Reply("bad_format")>>, ud, d)
        ELSE IF DtLess(dt, now)
             THEN Result(EDIT_DATETIME, <<Reply("must_be_future")>>, ud, d)
             ELSE IF ud.edit_id = None \/ ~d.ok THEN Raised(cur, <<>>, ud, d)
             ELSE Result(END, <<Reply("datetime_updated")>>, ud,
                         SqlUpdateDatetime(d, ud.edit_id[1], format_datetime(dt)))

edit_text(cur, text, ud, d) ==
    IF ud.edit_id = None \/ ~d.ok THEN Raised(cur, <<>>, ud, d)
    ELSE Result(END, <<Reply("text_updated")>>, ud,
                SqlUpdateText(d, ud.edit_id[1], text))

edit_file(cur, a, ud, d) ==
    IF ud.edit_id = None THEN Raised(cur, <<>>, ud, d)
    ELSE IF AttPickedId(a) # NULL
         THEN IF ~d.ok THEN Raised(cur, <<>>, ud, d)
              ELSE Result(END, <<Reply("file_updated")>>, ud,
                     SqlUpdateFile(d, ud.edit_id[1], AttPickedId(a), AttFileType(a),
                                   AttPickedName(a)))
         ELSE Result(EDIT_FILE, <<Reply("unsupported_file")>>, ud, d)

\* mutant: /remove_file deletes the row instead of clearing its file columns
remove_file_deletes(cur, ud, d) ==
    IF ud.edit_id = None \/ ~d.ok THEN Raised(cur, <<>>, ud, d)
    ELSE Result(END, <<Reply("file_removed")>>, ud, SqlDelete(d, ud.edit_id[1]))

remove_file(cur, ud, d) ==
    IF ud.edit_id = None \/ ~d.ok THEN Raised(cur, <<>>, ud, d)
    ELSE Result(END, <<Reply("file_removed")>>, ud,
                SqlUpdateFile(d, ud.edit_id[1], NULL, NULL, NULL))

\* event_id = int(query.data.split("_")[2]) of "confirm_del_<id>"
ConfirmId(data) == IF data = "confirm_del_1" THEN 1 ELSE 2

\* returns None: the conversation keeps its state
handle_confirm_delete(cur, data, ud, d) ==
    IF data \in {"confirm_del_1", "confirm_del_2"}
    THEN IF ~d.ok \/ SqlSelectById(d, ConfirmId(data)) = None
         THEN Raised(cur, <<>>, ud, d)
         ELSE Result(cur, <<Reply("event_deleted")>>, ud, SqlDelete(d, ConfirmId(data)))
    ELSE Result(cur, <<Reply("delete_cancelled")>>, ud, d)

\* ------------------------------------------------------------------------
\* The list: list_events, today_events, handle_pagination, show_events_page.
\* These are plain handlers: they return nothing to a ConversationHandler.
\* What show_events_page renders is kept as a view: the page number and page
\* count of the heading, one entry per event of the page, the rows of the
\* inline keyboard (callback_data) and the message that carries it.
\* ------------------------------------------------------------------------
per_page == 5

NoView == [page |-> 0, total |-> 0, entries |-> <<>>, keyboard |-> <<>>, message |-> None]

Plain(out, ud, view) == [out |-> out, ud |-> ud, view |-> view]

\* ORDER BY datetime: the TEXT column is compared as text; rows with equal
\* text stay in rowid order
RECURSIVE OrderInsert(_, _)
OrderInsert(sorted, r) ==
    IF sorted = <<>> THEN <<r>>
    ELSE IF StrLess(r.datetime, Head(sorted).datetime) THEN <<r>> \o sorted
    ELSE <<Head(sorted)>> \o OrderInsert(Tail(sorted), r)

RECURSIVE OrderByDatetime(_)
OrderByDatetime(rows) ==
    IF rows = <<>> THEN <<>>
    ELSE OrderInsert(OrderByDatetime(SubSeq(rows, 1, Len(rows) - 1)), rows[Len(rows)])

\* the columns id, datetime, event_text, file_type, file_name of the rows
Columns(rows) ==
    [i \in 1..Len(rows) |->
        [id |-> rows[i].id, datetime |-> rows[i].datetime, event_text |-> rows[i].event_text,
         file_type |-> rows[i].file_type, file_name |-> rows[i].file_name]]

\* SELECT id, datetime, event_text, file_type, file_name FROM events
\* WHERE user_id = ? ORDER BY datetime ; fetchall()
SqlSelectList(d, user_id) ==
    Columns(OrderByDatetime(SelectSeq(d.rows, LAMBDA r : r.user_id = user_id)))

\* SELECT ... WHERE user_id = ? AND datetime LIKE 'DDMMYY%' ORDER BY datetime
SqlSelectToday(d, user_id, today) ==
    Columns(OrderByDatetime(SelectSeq(d.rows,
        LAMBDA r : r.user_id = user_id /\ Slice(r.datetime, 0, Len(today)) = today)))

\* the block of one event in the list message
Entry(e) ==
    [id |-> e.id, when |-> format_display_datetime(e.datetime), text |-> e.event_text,
     file |-> IF e.file_type = NULL THEN NULL
              ELSE IF e.file_name # NULL THEN e.file_name ELSE e.file_type]

\* mutant: the "next" button is shown also when the page ends the list
NavButtons_le(n, page) ==
    IF n > per_page
    THEN << (IF page > 0 THEN <<"prev_page">> ELSE <<>>)
              \o (IF page * per_page + per_page <= n THEN <<"next_page">> ELSE <<>>) >>
    ELSE <<>>

\* the row of navigation buttons, when the list is longer than a page
NavButtons(n, page) ==
    IF n > per_page
    THEN << (IF page > 0 THEN <<"prev_page">> ELSE <<>>)
              \o (IF page * per_page + per_page < n THEN <<"next_page">> ELSE <<>>) >>
    ELSE <<>>

\* events[start:end]
PageEvents(events, page) == PySlice(events, page * per_page, page * per_page + per_page)

\* is_message: the update is a message (update.message is None for a button);
\* edit_ok: Telegram accepts edit_message_text; mid: the id of a new message
show_events_page(is_message, edit_ok, mid, ud) ==
    LET events == ud.events_list
        page == IF ud.current_page = None THEN 0 ELSE ud.current_page[1]
        total_pages == (Len(events) + per_page - 1) \div per_page
        page_events == PageEvents(events, page)
        keyboard == NavButtons(Len(events), page)
                      \o << <<"get_files">>, <<"edit_event">>, <<"delete_event">> >>
        view == [page |-> page + 1, total |-> total_pages,
                 entries |-> [i \in 1..Len(page_events) |-> Entry(page_events[i])],
                 keyboard |-> keyboard, message |-> None]
    IN  IF ud.events_message # None /\ edit_ok
        THEN Plain(<<[op |-> "edit_message_text", body |-> "events_page", file_id |-> NULL]>>,
                   ud, [view EXCEPT !.message = ud.events_message])
        ELSE IF ~is_message
        THEN Plain(<<>>, ud, NoView)
        ELSE Plain(<<Reply("events_page")>>, [ud EXCEPT !.events_message = <<mid>>],
                   [view EXCEPT !.message = <<mid>>])

start(ud) == Plain(<<Reply("help")>>, ud, NoView)

list_events(user_id, edit_ok, mid, ud, d) ==
    IF ~d.ok THEN Plain(<<>>, ud, NoView)
    ELSE LET events == SqlSelectList(d, user_id)
         IN  IF events = <<>>
             THEN Plain(<<Reply("no_events")>>, ud, NoView)
             ELSE show_events_page(TRUE, edit_ok, mid,
                      [ud EXCEPT !.events_list = events, !.current_page = <<0>>])

\* the block of one event in the message of /today
TodayEntry(e) ==
    [id |-> e.id,
     when |-> IF \E i \in 1..Len(e.datetime) : e.datetime[i] = " "
              THEN Split(format_display_datetime(e.datetime))[2]
              ELSE e.datetime,
     text |-> e.event_text,
     file |-> IF e.file_type = NULL THEN NULL ELSE "has_file"]

today_events(user_id, now, ud, d) ==
    IF ~d.ok THEN Plain(<<>>, ud, NoView)
    ELSE LET today == Slice(format_datetime(now), 0, 6)
             events == SqlSelectToday(d, user_id, today)
         IN  IF events = <<>>
             THEN Plain(<<Reply("no_events_today")>>, ud, NoView)
             ELSE Plain(<<Reply("events_today")>>, ud,
                        [NoView EXCEPT !.entries =
                            [i \in 1..Len(events) |-> TodayEntry(events[i])]])

\* KeyError when user_data has no current_page
handle_pagination(action, edit_ok, mid, ud) ==
    IF ud.current_page = None THEN Plain(<<>>, ud, NoView)
    ELSE LET page == ud.current_page[1]
             moved == IF action = "prev_page" THEN page - 1
                      ELSE IF action = "next_page" THEN page + 1
                      ELSE page
         IN  show_events_page(FALSE, edit_ok, mid, [ud EXCEPT !.current_page = <<moved>>])


\* ------------------------------------------------------------------------
\* main(): the handlers in the order they are added.  Application hands an
\* update to the first handler of the group whose check_update accepts it.
\* A ConversationHandler accepts an update at END through an entry point
\* only, and in a state through that state's handlers only (no fallbacks,
\* allow_reentry off).
\* ------------------------------------------------------------------------
NoHandler == "-"

IsCommand(upd, name) == upd.kind = "command" /\ upd.name = name
\* filters.TEXT & ~filters.COMMAND
IsText(upd) == upd.kind = "text"
\* filters.ATTACHMENT | filters.PHOTO | filters.AUDIO | filters.VOICE
IsFile(upd) == upd.kind = "attachment"
IsCallback(upd, pattern) == upd.kind = "callback" /\ upd.name \in pattern

conv_handler_add(state, upd) ==
    IF state = END
    THEN IF IsCommand(upd, "add") THEN "add_event" ELSE NoHandler
    ELSE IF state = GET_DATETIME /\ IsText(upd) THEN "get_datetime"
    ELSE IF state = GET_TEXT /\ IsText(upd) THEN "get_text"
    ELSE IF state = GET_FILE /\ IsFile(upd) THEN "get_file_attachment"
    ELSE IF state = GET_FILE /\ IsCommand(upd, "skip") THEN "skip_file"
    ELSE NoHandler

conv_handler_file(state, upd) ==
    IF state = END
    THEN IF IsCommand(upd, "file") THEN "request_file"
         ELSE IF IsCallback(upd, {"get_files"}) THEN "handle_file_button"
         ELSE NoHandler
    ELSE IF state = GET_EVENT_ID /\ IsText(upd) THEN "get_event_id"
    ELSE NoHandler

conv_handler_edit(state, upd) ==
    IF state = END
    THEN IF IsCommand(upd, "edit") THEN "edit_event" ELSE NoHandler
    ELSE IF state = GET_EDIT_ID /\ IsText(upd) THEN "get_edit_id"
    ELSE IF state = EDIT_CHOICE /\ IsCallback(upd, EditPattern) THEN "edit_choice"
    ELSE IF state = EDIT_DATETIME /\ IsText(upd) THEN "edit_datetime"
    ELSE IF state = EDIT_TEXT /\ IsText(upd) THEN "edit_text"
    ELSE IF state = EDIT_FILE /\ IsFile(upd) THEN "edit_file"
    ELSE IF state = EDIT_FILE /\ IsCommand(upd, "remove_file") THEN "remove_file"
    ELSE NoHandler

conv_handler_delete(state, upd) ==
    IF state = END
    THEN IF IsCommand(upd, "delete") THEN "delete_event" ELSE NoHandler
    ELSE IF state = GET_EDIT_ID /\ IsText(upd) THEN "get_edit_id"
    ELSE IF state = CONFIRM_DELETE /\ IsCallback(upd, ConfirmPattern)
         THEN "handle_confirm_delete"
    ELSE NoHandler

\* <<handler, callback>> that takes the update, given the user's states cs
main(cs, upd) ==
    IF IsCommand(upd, "start") THEN <<"start", "start">>
    ELSE IF IsCommand(upd, "list") THEN <<"list", "list_events">>
    ELSE IF IsCommand(upd, "today") THEN <<"today", "today_events">>
    ELSE IF conv_handler_add(cs["conv_handler_add"], upd) # NoHandler
         THEN <<"conv_handler_add", conv_handler_add(cs["conv_handler_add"], upd)>>
    ELSE IF conv_handler_file(cs["conv_handler_file"], upd) # NoHandler
         THEN <<"conv_handler_file", conv_handler_file(cs["conv_handler_file"], upd)>>
    ELSE IF conv_handler_edit(cs["conv_handler_edit"], upd) # NoHandler
         THEN <<"conv_handler_edit", conv_handler_edit(cs["conv_handler_edit"], upd)>>
    ELSE IF conv_handler_delete(cs["conv_handler_delete"], upd) # NoHandler
         THEN <<"conv_handler_delete", conv_handler_delete(cs["conv_handler_delete"], upd)>>
    ELSE IF IsCallback(upd, PagePattern) THEN <<"pagination", "handle_pagination">>
    ELSE <<NoHandler, NoHandler>>

\* the user's state in each ConversationHandler
StatesOf(u) == [h \in ConvHandlers |-> conversations[h][u]]
Route(u, upd) == main(StatesOf(u), upd)

\* ------------------------------------------------------------------------
\* Init: the process has just started.  The table is durable and holds what
\* earlier runs saved; conversations and user_data are empty.
\* ------------------------------------------------------------------------
EmptyUserData ==
    [datetime |-> None, text |-> None, edit_id |-> None,
     events_list |-> <<>>, current_page |-> None, events_message |-> None]
NoDraft == [datetime |-> None, text |-> None, at |-> 0]

InitRows ==
    << Row(1, 1, DtText(1), IdText(1), "doc_id", "document", "a.pdf"),
       Row(2, 2, DtText(1), IdText(1), NULL, NULL, NULL) >>

Started ==
    /\ db = [rows |-> InitRows, seq |-> Len(InitRows), ok |-> TRUE]
    /\ conversations = [h \in ConvHandlers |-> [u \in Users |-> END]]
    /\ user_data = [u \in Users |-> EmptyUserData]
    /\ clock = 0
    /\ nupd = 0
    /\ last = [user |-> 0, handler |-> NoHandler, callback |-> NoHandler,
               state |-> END, upd |-> Command("start"), out |-> <<>>, view |-> NoView]
    /\ addDraft = [u \in Users |-> NoDraft]
    /\ editTarget = [u \in Users |-> None]

Init ==
    Started /\ env = [senders |-> Users, budget |-> MaxUpdates, texts |-> Texts, ticks |-> MaxClock]

InitSolo ==
    Started /\ env = [senders |-> {1}, budget |-> MaxSoloUpdates, texts |-> Texts, ticks |-> MaxClock]

\* ------------------------------------------------------------------------
\* Actions: one per callback.  Handled is the part common to all: the
\* callback's result is applied and ConversationHandler records the state.
\* ------------------------------------------------------------------------
\* the user sends one more update in this run
CanSend(u) == u \in env.senders /\ nupd < env.budget

\* mutant: the conversation is keyed by the chat alone (per_user off) in a
\* chat that all users share
Handled_per_chat(u, h, cb, upd, r) ==
    /\ nupd' = nupd + 1
    /\ conversations' = [conversations EXCEPT ![h] = [v \in Users |-> r.next]]
    /\ user_data' = [user_data EXCEPT ![u] = r.ud]
    /\ db' = r.db
    /\ last' = [user |-> u, handler |-> h, callback |-> cb,
                state |-> conversations[h][u], upd |-> upd, out |-> r.out,
                view |-> NoView]
    /\ editTarget' = IF h = "conv_handler_edit" /\ cb = "get_edit_id" /\ r.next = EDIT_CHOICE
                     THEN [editTarget EXCEPT ![u] = r.ud.edit_id]
                     ELSE editTarget
    /\ UNCHANGED <<clock, env>>

Handled(u, h, cb, upd, r) ==
    /\ nupd' = nupd + 1
    /\ conversations' = [conversations EXCEPT ![h][u] = r.next]
    /\ user_data' = [user_data EXCEPT ![u] = r.ud]
    /\ db' = r.db
    /\ last' = [user |-> u, handler |-> h, callback |-> cb,
                state |-> conversations[h][u], upd |-> upd, out |-> r.out,
                view |-> NoView]
    /\ editTarget' = IF h = "conv_handler_edit" /\ cb = "get_edit_id" /\ r.next = EDIT_CHOICE
                     THEN [editTarget EXCEPT ![u] = r.ud.edit_id]
                     ELSE editTarget
    /\ UNCHANGED <<clock, env>>

Cur(u, h) == conversations[h][u]

On_add_event(u) ==
    /\ CanSend(u)
    /\ Route(u, Command("add")) = <<"conv_handler_add", "add_event">>
    /\ Handled(u, "conv_handler_add", "add_event", Command("add"), add_event(user_data[u], db))
    /\ addDraft' = [addDraft EXCEPT ![u] = NoDraft]

On_get_datetime(u, t) ==
    /\ CanSend(u)
    /\ Route(u, TextMsg(t)) = <<"conv_handler_add", "get_datetime">>
    /\ LET r == get_datetime(t, Now, user_data[u], db)
       IN  /\ Handled(u, "conv_handler_add", "get_datetime", TextMsg(t), r)
           /\ addDraft' = IF r.next = GET_TEXT
                          THEN [addDraft EXCEPT ![u].datetime = t, ![u].at = clock]
                          ELSE addDraft

On_get_text(u, t) ==
    /\ CanSend(u)
    /\ Route(u, TextMsg(t)) = <<"conv_handler_add", "get_text">>
    /\ Handled(u, "conv_handler_add", "get_text", TextMsg(t), get_text(t, user_data[u], db))
    /\ addDraft' = [addDraft EXCEPT ![u].text = t]

On_get_file_attachment(u, a) ==
    /\ CanSend(u)
    /\ Route(u, AttMsg(a)) = <<"conv_handler_add", "get_file_attachment">>
    /\ db.seq < MaxEvents
    /\ Handled(u, "conv_handler_add", "get_file_attachment", AttMsg(a),
               get_file_attachment(Cur(u, "conv_handler_add"), u, a, user_data[u], db))
    /\ UNCHANGED addDraft

On_skip_file(u) ==
    /\ CanSend(u)
    /\ Route(u, Command("skip")) = <<"conv_handler_add", "skip_file">>
    /\ db.seq < MaxEvents
    /\ Handled(u, "conv_handler_add", "skip_file", Command("skip"),
               skip_file(Cur(u, "conv_handler_add"), u, user_data[u], db))
    /\ UNCHANGED addDraft

On_request_file(u) ==
    /\ CanSend(u)
    /\ Route(u, Command("file")) = <<"conv_handler_file", "request_file">>
    /\ Handled(u, "conv_handler_file", "request_file", Command("file"), request_file(user_data[u], db))
    /\ UNCHANGED addDraft

\* the button of the list keyboard, which /list sends to a user with events
On_handle_file_button(u) ==
    /\ CanSend(u)
    /\ SqlHasEvents(db, u)
    /\ Route(u, Callback("get_files")) = <<"conv_handler_file", "handle_file_button">>
    /\ Handled(u, "conv_handler_file", "handle_file_button", Callback("get_files"),
               handle_file_button(user_data[u], db))
    /\ UNCHANGED addDraft

On_get_event_id(u, t) ==
    /\ CanSend(u)
    /\ Route(u, TextMsg(t)) = <<"conv_handler_file", "get_event_id">>
    /\ Handled(u, "conv_handler_file", "get_event_id", TextMsg(t),
               get_event_id(u, t, user_data[u], db))
    /\ UNCHANGED addDraft

On_edit_event(u) ==
    /\ CanSend(u)
    /\ Route(u, Command("edit")) = <<"conv_handler_edit", "edit_event">>
    /\ Handled(u, "conv_handler_edit", "edit_event", Command("edit"), edit_event(u, user_data[u], db))
    /\ UNCHANGED addDraft

\* get_edit_id serves GET_EDIT_ID of conv_handler_edit and of conv_handler_delete
On_get_edit_id(u, t) ==
    /\ CanSend(u)
    /\ \E h \in {"conv_handler_edit", "conv_handler_delete"} :
          /\ Route(u, TextMsg(t)) = <<h, "get_edit_id">>
          /\ Handled(u, h, "get_edit_id", TextMsg(t), get_edit_id(u, t, user_data[u], db))
    /\ UNCHANGED addDraft

On_edit_choice(u, data) ==
    /\ CanSend(u)
    /\ Route(u, Callback(data)) = <<"conv_handler_edit", "edit_choice">>
    /\ Handled(u, "conv_handler_edit", "edit_choice", Callback(data),
               edit_choice(Cur(u, "conv_handler_edit"), data, user_data[u], db))
    /\ UNCHANGED addDraft

On_edit_datetime(u, t) ==
    /\ CanSend(u)
    /\ Route(u, TextMsg(t)) = <<"conv_handler_edit", "edit_datetime">>
    /\ Handled(u, "conv_handler_edit", "edit_datetime", TextMsg(t),
               edit_datetime(Cur(u, "conv_handler_edit"), t, Now, user_data[u], db))
    /\ UNCHANGED addDraft

On_edit_text(u, t) ==
    /\ CanSend(u)
    /\ Route(u, TextMsg(t)) = <<"conv_handler_edit", "edit_text">>
    /\ Handled(u, "conv_handler_edit", "edit_text", TextMsg(t),
               edit_text(Cur(u, "conv_handler_edit"), t, user_data[u], db))
    /\ UNCHANGED addDraft

On_edit_file(u, a) ==
    /\ CanSend(u)
    /\ Route(u, AttMsg(a)) = <<"conv_handler_edit", "edit_file">>
    /\ Handled(u, "conv_handler_edit", "edit_file", AttMsg(a),
               edit_file(Cur(u, "conv_handler_edit"), a, user_data[u], db))
    /\ UNCHANGED addDraft

On_remove_file(u) ==
    /\ CanSend(u)
    /\ Route(u, Command("remove_file")) = <<"conv_handler_edit", "remove_file">>
    /\ Handled(u, "conv_handler_edit", "remove_file", Command("remove_file"),
               remove_file(Cur(u, "conv_handler_edit"), user_data[u], db))
    /\ UNCHANGED addDraft

On_delete_event(u) ==
    /\ CanSend(u)
    /\ Route(u, Command("delete")) = <<"conv_handler_delete", "delete_event">>
    /\ Handled(u, "conv_handler_delete", "delete_event", Command("delete"),
               delete_event(u, user_data[u], db))
    /\ UNCHANGED addDraft

\* registered for CONFIRM_DELETE only; no callback returns CONFIRM_DELETE, so
\* the action is not part of Next (NeverConfirmDelete)
On_handle_confirm_delete(u, data) ==
    /\ CanSend(u)
    /\ Route(u, Callback(data)) = <<"conv_handler_delete", "handle_confirm_delete">>
    /\ Handled(u, "conv_handler_delete", "handle_confirm_delete", Callback(data),
               handle_confirm_delete(Cur(u, "conv_handler_delete"), data, user_data[u], db))
    /\ UNCHANGED addDraft

\* a handler outside the ConversationHandlers has handled the update
HandledPlain(u, h, cb, upd, r) ==
    /\ nupd' = nupd + 1
    /\ user_data' = [user_data EXCEPT ![u] = r.ud]
    /\ last' = [user |-> u, handler |-> h, callback |-> cb, state |-> END,
                upd |-> upd, out |-> r.out, view |-> r.view]
    /\ UNCHANGED <<db, conversations, clock, env, addDraft, editTarget>>

\* the message_id Telegram gives to the next message the bot sends
NewMessageId == nupd + 1

On_start(u) ==
    /\ CanSend(u)
    /\ Route(u, Command("start")) = <<"start", "start">>
    /\ HandledPlain(u, "start", "start", Command("start"), start(user_data[u]))

On_list_events(u, edit_ok) ==
    /\ CanSend(u)
    /\ Route(u, Command("list")) = <<"list", "list_events">>
    /\ HandledPlain(u, "list", "list_events", Command("list"),
                    list_events(u, edit_ok, NewMessageId, user_data[u], db))

On_today_events(u) ==
    /\ CanSend(u)
    /\ Route(u, Command("today")) = <<"today", "today_events">>
    /\ HandledPlain(u, "today", "today_events", Command("today"),
                    today_events(u, Now, user_data[u], db))

\* a button of any list message still in the chat, also one sent before the
\* process started
On_handle_pagination(u, action, edit_ok) ==
    /\ CanSend(u)
    /\ Route(u, Callback(action)) = <<"pagination", "handle_pagination">>
    /\ HandledPlain(u, "pagination", "handle_pagination", Callback(action),
                    handle_pagination(action, edit_ok, NewMessageId, user_data[u]))

\* an update that no handler accepts is dropped by Application.process_update
On_unhandled(u, upd) ==
    /\ CanSend(u)
    /\ Route(u, upd) = <<NoHandler, NoHandler>>
    /\ HandledPlain(u, NoHandler, NoHandler, upd, Plain(<<>>, user_data[u], NoView))

\* the database stops or resumes serving statements (locked, disk full, ...)
Fault ==
    /\ db' = [db EXCEPT !.ok = ~db.ok]
    /\ UNCHANGED <<conversations, user_data, clock, nupd, env, last, addDraft, editTarget>>

Tick ==
    /\ clock < env.ticks
    /\ clock' = clock + 1
    /\ UNCHANGED <<db, conversations, user_data, nupd, env, last, addDraft, editTarget>>

Next ==
    \/ \E u \in Users : On_add_event(u)
    \/ \E u \in Users, t \in env.texts : On_get_datetime(u, t)
    \/ \E u \in Users, t \in env.texts : On_get_text(u, t)
    \/ \E u \in Users, a \in Attachments : On_get_file_attachment(u, a)
    \/ \E u \in Users : On_skip_file(u)
    \/ \E u \in Users : On_request_file(u)
    \/ \E u \in Users : On_handle_file_button(u)
    \/ \E u \in Users, t \in env.texts : On_get_event_id(u, t)
    \/ \E u \in Users : On_edit_event(u)
    \/ \E u \in Users, t \in env.texts : On_get_edit_id(u, t)
    \/ \E u \in Users, data \in EditPattern : On_edit_choice(u, data)
    \/ \E u \in Users, t \in env.texts : On_edit_datetime(u, t)
    \/ \E u \in Users, t \in env.texts : On_edit_text(u, t)
    \/ \E u \in Users, a \in Attachments : On_edit_file(u, a)
    \/ \E u \in Users : On_remove_file(u)
    \/ \E u \in Users : On_delete_event(u)
    \/ Tick

Spec == Init /\ [][Next]_vars

SpecSolo == InitSolo /\ [][Next]_vars


\* The Add conversation alone on a fresh database: long enough for a user to
\* run it twice.
MaxAddUpdates == 8

InitFresh ==
    /\ db = [rows |-> <<>>, seq |-> 0, ok |-> TRUE]
    /\ conversations = [h \in ConvHandlers |-> [u \in Users |-> END]]
    /\ user_data = [u \in Users |-> EmptyUserData]
    /\ clock = 0
    /\ nupd = 0
    /\ last = [user |-> 0, handler |-> NoHandler, callback |-> NoHandler,
               state |-> END, upd |-> Command("start"), out |-> <<>>, view |-> NoView]
    /\ addDraft = [u \in Users |-> NoDraft]
    /\ editTarget = [u \in Users |-> None]
    /\ env = [senders |-> {1}, budget |-> MaxAddUpdates, texts |-> Texts, ticks |-> MaxClock]

NextAdd ==
    \/ \E u \in Users : On_add_event(u)
    \/ \E u \in Users, t \in env.texts : On_get_datetime(u, t)
    \/ \E u \in Users, t \in env.texts : On_get_text(u, t)
    \/ \E u \in Users, a \in Attachments : On_get_file_attachment(u, a)
    \/ \E u \in Users : On_skip_file(u)
    \/ Tick

SpecAdd == InitFresh /\ [][NextAdd]_vars

\* One Add conversation on a fresh database, with time to pass between its
\* steps: the clock reaches 00:01:30 (in ticks).
MaxLateClock == 3
MaxLateUpdates == 4

InitLate ==
    /\ db = [rows |-> <<>>, seq |-> 0, ok |-> TRUE]
    /\ conversations = [h \in ConvHandlers |-> [u \in Users |-> END]]
    /\ user_data = [u \in Users |-> EmptyUserData]
    /\ clock = 0
    /\ nupd = 0
    /\ last = [user |-> 0, handler |-> NoHandler, callback |-> NoHandler,
               state |-> END, upd |-> Command("start"), out |-> <<>>, view |-> NoView]
    /\ addDraft = [u \in Users |-> NoDraft]
    /\ editTarget = [u \in Users |-> None]
    /\ env = [senders |-> {1}, budget |-> MaxLateUpdates, texts |-> Texts,
              ticks |-> MaxLateClock]

SpecLate == InitLate /\ [][NextAdd]_vars

\* Every handler of main(), both users sending, and the updates no handler
\* accepts; the run is short enough for the clock to stand still.
MaxAllUpdates == 4

InitAll ==
    Started /\ env = [senders |-> Users, budget |-> MaxAllUpdates, texts |-> Texts,
                      ticks |-> 0]

NextAll ==
    \/ \E u \in Users : On_add_event(u)
    \/ \E u \in Users, t \in env.texts : On_get_datetime(u, t)
    \/ \E u \in Users, t \in env.texts : On_get_text(u, t)
    \/ \E u \in Users, a \in Attachments : On_get_file_attachment(u, a)
    \/ \E u \in Users : On_skip_file(u)
    \/ \E u \in Users : On_request_file(u)
    \/ \E u \in Users : On_handle_file_button(u)
    \/ \E u \in Users, t \in env.texts : On_get_event_id(u, t)
    \/ \E u \in Users : On_edit_event(u)
    \/ \E u \in Users, t \in env.texts : On_get_edit_id(u, t)
    \/ \E u \in Users, data \in EditPattern : On_edit_choice(u, data)
    \/ \E u \in Users, t \in env.texts : On_edit_datetime(u, t)
    \/ \E u \in Users, t \in env.texts : On_edit_text(u, t)
    \/ \E u \in Users, a \in Attachments : On_edit_file(u, a)
    \/ \E u \in Users : On_remove_file(u)
    \/ \E u \in Users : On_delete_event(u)
    \/ \E u \in Users : On_start(u)
    \/ \E u \in Users, edit_ok \in BOOLEAN : On_list_events(u, edit_ok)
    \/ \E u \in Users : On_today_events(u)
    \/ \E u \in Users, action \in PagePattern, edit_ok \in BOOLEAN :
          On_handle_pagination(u, action, edit_ok)
    \/ \E u \in Users, upd \in Probes : On_unhandled(u, upd)

SpecAll == InitAll /\ [][NextAll]_vars

\* The list on tables of up to MaxListed events that earlier runs saved, in two
\* orders of creation: the k-th date of WhenOf is the date of the k-th row, or
\* of the k-th row from the end.  Every fourth row belongs to user 2.
MaxListed == 15
MaxListUpdates == 3

\* distinct date-times at 00:00, whose order in time is not the order of k
WhenOf(k) == <<2030 + (k \div 8), ((k * 5) % 12) + 1, ((k * 11) % 28) + 1, 0, 0, 0, 0>>

Table(n, reversed) ==
    [i \in 1..n |->
        LET k == IF reversed THEN n + 1 - i ELSE i
        IN  Row(i, IF i % 4 = 0 THEN 2 ELSE 1, format_datetime(WhenOf(k)), IdText(1),
                IF i % 3 = 1 THEN NULL ELSE IF i % 3 = 2 THEN "photo_id" ELSE "doc_id",
                IF i % 3 = 1 THEN NULL ELSE IF i % 3 = 2 THEN "photo" ELSE "document",
                IF i % 3 = 0 THEN "a.pdf" ELSE NULL)]

InitList ==
    /\ db \in {[rows |-> Table(n, reversed), seq |-> n, ok |-> TRUE] :
                  n \in 0..MaxListed, reversed \in BOOLEAN}
    /\ conversations = [h \in ConvHandlers |-> [u \in Users |-> END]]
    /\ user_data = [u \in Users |-> EmptyUserData]
    /\ clock = 0
    /\ nupd = 0
    /\ last = [user |-> 0, handler |-> NoHandler, callback |-> NoHandler,
               state |-> END, upd |-> Command("start"), out |-> <<>>, view |-> NoView]
    /\ addDraft = [u \in Users |-> NoDraft]
    /\ editTarget = [u \in Users |-> None]
    /\ env = [senders |-> Users, budget |-> MaxListUpdates, texts |-> Texts, ticks |-> 0]

NextList ==
    \/ \E u \in Users : On_start(u)
    \/ \E u \in Users, edit_ok \in BOOLEAN : On_list_events(u, edit_ok)
    \/ \E u \in Users : On_today_events(u)
    \/ \E u \in Users, action \in PagePattern, edit_ok \in BOOLEAN :
          On_handle_pagination(u, action, edit_ok)

SpecList == InitList /\ [][NextList]_vars

\* parse_datetime on texts built from date tokens and time tokens that are
\* well formed, too short, too long, signed, not numeric or out of range,
\* joined by one or two spaces, and on a text of one and of three tokens; the
\* Add conversation applies it in get_datetime.
MaxParseUpdates == 4

DateTokens ==
    { <<"0", "1", "0", "1", "3", "1">>, <<"0", "1", "0", "1", "3">>,
      <<"0", "1", "0", "1", "3", "1", "1">>, <<"+", "1", "0", "1", "3", "1">>,
      <<"-", "1", "0", "1", "3", "1">>, <<"3", "1", "0", "4", "3", "1">>,
      <<"0", "1", "0", "1", "a", "1">> }

TimeTokens ==
    { <<"0", "0", "0", "0">>, <<"0", "0", "0">>, <<"0", "0", "0", "0", "1">>,
      <<"+", "1", "0", "0">>, <<"2", "4", "0", "0">>, <<"0", "0", "6", "0">> }

ParseTexts ==
    {d \o <<" ">> \o t : d \in DateTokens, t \in TimeTokens}
      \cup {d \o <<" ", " ">> \o <<"0", "0", "0", "0">> : d \in DateTokens}
      \cup {<<"0", "1", "0", "1", "3", "1">>,
            <<"0", "1", "0", "1", "3", "1", " ", "0", "0", "0", "0", " ", "0", "0", "0", "0">>}

InitParse ==
    /\ db = [rows |-> <<>>, seq |-> 0, ok |-> TRUE]
    /\ conversations = [h \in ConvHandlers |-> [u \in Users |-> END]]
    /\ user_data = [u \in Users |-> EmptyUserData]
    /\ clock = 0
    /\ nupd = 0
    /\ last = [user |-> 0, handler |-> NoHandler, callback |-> NoHandler,
               state |-> END, upd |-> Command("start"), out |-> <<>>, view |-> NoView]
    /\ addDraft = [u \in Users |-> NoDraft]
    /\ editTarget = [u \in Users |-> None]
    /\ env = [senders |-> {1}, budget |-> MaxParseUpdates, texts |-> ParseTexts,
              ticks |-> MaxClock]

SpecParse == InitParse /\ [][NextAdd]_vars

\* format_datetime and parse_datetime on date-times of the years 2000..2099:
\* the user types the text that format_datetime gives for a date-time (first
\* and last year, the years around now, leap day, ends of month and of day)
\* and get_datetime parses it.
MaxCodecUpdates == 4

CodecYears == {2000, 2030, 2031, 2099}
CodecDays == {<<1, 1>>, <<2, 29>>, <<4, 30>>, <<12, 31>>}
CodecTimes == {<<0, 0>>, <<9, 5>>, <<23, 59>>}

CodecDatetimes ==
    {dt \in {<<y, md[1], md[2], hm[1], hm[2], 0, 0>> :
                y \in CodecYears, md \in CodecDays, hm \in CodecTimes} :
        DatetimeOk(dt[1], dt[2], dt[3], dt[4], dt[5])}

InitCodec ==
    /\ db = [rows |-> <<>>, seq |-> 0, ok |-> TRUE]
    /\ conversations = [h \in ConvHandlers |-> [u \in Users |-> END]]
    /\ user_data = [u \in Users |-> EmptyUserData]
    /\ clock = 0
    /\ nupd = 0
    /\ last = [user |-> 0, handler |-> NoHandler, callback |-> NoHandler,
               state |-> END, upd |-> Command("start"), out |-> <<>>, view |-> NoView]
    /\ addDraft = [u \in Users |-> NoDraft]
    /\ editTarget = [u \in Users |-> None]
    /\ env = [senders |-> {1}, budget |-> MaxCodecUpdates,
              texts |-> {format_datetime(dt) : dt \in CodecDatetimes}, ticks |-> MaxClock]

SpecCodec == InitCodec /\ [][NextAdd]_vars

\* User 1, with a list of two pages, edits events between /list and the
\* presses on the page buttons.
MaxStaleUpdates == 6
StaleRows == 8
StaleTexts == {IdText(5), IdText(2)}

InitStale ==
    /\ db = [rows |-> Table(StaleRows, FALSE), seq |-> StaleRows, ok |-> TRUE]
    /\ conversations = [h \in ConvHandlers |-> [u \in Users |-> END]]
    /\ user_data = [u \in Users |-> EmptyUserData]
    /\ clock = 0
    /\ nupd = 0
    /\ last = [user |-> 0, handler |-> NoHandler, callback |-> NoHandler,
               state |-> END, upd |-> Command("start"), out |-> <<>>, view |-> NoView]
    /\ addDraft = [u \in Users |-> NoDraft]
    /\ editTarget = [u \in Users |-> None]
    /\ env = [senders |-> {1}, budget |-> MaxStaleUpdates, texts |-> StaleTexts, ticks |-> 0]

NextStale ==
    \/ \E u \in Users : On_edit_event(u)
    \/ \E u \in Users, t \in env.texts : On_get_edit_id(u, t)
    \/ \E u \in Users, data \in EditPattern : On_edit_choice(u, data)
    \/ \E u \in Users, t \in env.texts : On_edit_datetime(u, t)
    \/ \E u \in Users, t \in env.texts : On_edit_text(u, t)
    \/ \E u \in Users, a \in Attachments : On_edit_file(u, a)
    \/ \E u \in Users : On_remove_file(u)
    \/ \E u \in Users, edit_ok \in BOOLEAN : On_list_events(u, edit_ok)
    \/ \E u \in Users, action \in PagePattern, edit_ok \in BOOLEAN :
          On_handle_pagination(u, action, edit_ok)

SpecStale == InitStale /\ [][NextStale]_vars

\* User 1 against a database that may fail at any moment.
MaxFaultUpdates == 4

InitFault ==
    Started /\ env = [senders |-> {1}, budget |-> MaxFaultUpdates, texts |-> Texts,
                      ticks |-> MaxClock]

NextFault == Next \/ Fault

SpecFault == InitFault /\ [][NextFault]_vars

\* ------------------------------------------------------------------------
\* Claims
\* ------------------------------------------------------------------------
\* what the last handled update was
LastIs(cb) == last.callback = cb
LastUser == last.user
LastText == last.upd.text
LastState == conversations[last.handler][last.user]

\* the row with this id that the user owns, as a set of row positions
OwnedAt(d, u, k) == {i \in 1..Len(d.rows) : d.rows[i].id = k /\ d.rows[i].user_id = u}
ForeignAt(d, u, k) == {i \in 1..Len(d.rows) : d.rows[i].id = k /\ d.rows[i].user_id # u}
Ids(d) == {d.rows[i].id : i \in 1..Len(d.rows)}

Active(u) == {h \in ConvHandlers : conversations[h][u] # END}

\* C1 (as claimed): every user has at most one of the four flows in a
\* non-terminal state; entering another flow abandons the one in progress.
C1_OneFlowPerUser == \A u \in Users : Cardinality(Active(u)) <= 1

\* C1, what the code does: a user is inside the Add and the Edit conversation
\* at once, and the text sent after /edit was taken by the Add conversation.
C1_TwoFlows ==
    /\ LastIs("get_datetime")
    /\ conversations["conv_handler_edit"][LastUser] = GET_EDIT_ID
    /\ conversations["conv_handler_add"][LastUser] # END

\* C2 (as claimed): an update of user U changes no field of a row that
\* another user owns.
C2_OnlyOwnRowsChange ==
    [][\A i \in 1..Len(db.rows) :
          (i <= Len(db'.rows) /\ db'.rows[i] # db.rows[i])
              => db.rows[i].user_id = last'.user]_vars

\* C2, what the code does: edit_text has written to a row of another user.
C2_ForeignRowWritten ==
    /\ LastIs("edit_text")
    /\ user_data[LastUser].edit_id # None
    /\ ForeignAt(db, LastUser, user_data[LastUser].edit_id[1]) # {}

\* C3 (as claimed): in the Delete flow, the id of an owned event moves the
\* conversation to CONFIRM_DELETE.
C3_DeleteReachesConfirm ==
    ( /\ last.handler = "conv_handler_delete"
      /\ LastIs("get_edit_id")
      /\ PyInt(LastText) # ValueError
      /\ OwnedAt(db, LastUser, PyInt(LastText)[1]) # {} )
        => LastState = CONFIRM_DELETE

\* C3, what the code does: the Delete conversation sits in EDIT_CHOICE, a
\* state conv_handler_delete has no handler for.
C3_DeleteStuck ==
    /\ last.handler = "conv_handler_delete"
    /\ LastIs("get_edit_id")
    /\ LastState = EDIT_CHOICE

\* no callback returns CONFIRM_DELETE
NeverConfirmDelete ==
    \A h \in ConvHandlers, u \in Users : conversations[h][u] # CONFIRM_DELETE

\* C4: a row leaves the table only in a step in which its owner, in
\* CONFIRM_DELETE, confirms; every other step keeps every stored row's id.
C4_RemovedOnlyByConfirm ==
    [][\A k \in Ids(db) :
          k \notin Ids(db')
              => /\ last'.callback = "handle_confirm_delete"
                 /\ conversations["conv_handler_delete"][last'.user] = CONFIRM_DELETE
                 /\ OwnedAt(db, last'.user, k) # {}]_vars

\* C4 witness: a user went through the Delete flow's id state with an own id,
\* the other user's row and his own are still stored.
C4_Witness ==
    /\ C3_DeleteStuck
    /\ OwnedAt(db, LastUser, PyInt(LastText)[1]) # {}
    /\ \A r \in 1..Len(InitRows) : InitRows[r].id \in Ids(db)

\* C5: for user a, an id that another user owns gives in get_event_id and in
\* get_edit_id the messages, the next state and the user_data that the same
\* id gives when no row has it.
C5_ForeignAsMissing ==
    \A a \in Users, t \in Texts :
        LET k == PyInt(t)
        IN  (k # ValueError /\ ForeignAt(db, a, k[1]) # {})
            => LET without == SqlDelete(db, k[1])
                   f1 == get_event_id(a, t, user_data[a], db)
                   f2 == get_event_id(a, t, user_data[a], without)
                   e1 == get_edit_id(a, t, user_data[a], db)
                   e2 == get_edit_id(a, t, user_data[a], without)
               IN  /\ f1.out = f2.out /\ f1.next = f2.next /\ f1.ud = f2.ud
                   /\ e1.out = e2.out /\ e1.next = e2.next /\ e1.ud = e2.ud
                   /\ f1.db = db /\ e1.db = db

\* C5 witness: get_edit_id has answered an id that another user owns.
C5_Witness ==
    /\ LastIs("get_edit_id")
    /\ PyInt(LastText) # ValueError
    /\ ForeignAt(db, LastUser, PyInt(LastText)[1]) # {}
    /\ last.out = <<Reply("event_not_found")>>

Modality(op) ==
    IF op = "reply_document" THEN "document"
    ELSE IF op = "reply_photo" THEN "photo"
    ELSE IF op = "reply_audio" THEN "audio"
    ELSE IF op = "reply_voice" THEN "voice"
    ELSE "text"

C8_NoAttachmentAsNotFound ==
    ( /\ LastIs("get_event_id")
      /\ PyInt(LastText) # ValueError
      /\ \E i \in OwnedAt(db, LastUser, PyInt(LastText)[1]) : db.rows[i].file_type = NULL )
        => (LastState = END /\ last.out = <<Reply("file_not_found")>>)

\* C8, what the code does: the flow has ended and nothing was sent.
C8_SilentEnd ==
    /\ LastIs("get_event_id")
    /\ PyInt(LastText) # ValueError
    /\ \E i \in OwnedAt(db, LastUser, PyInt(LastText)[1]) : db.rows[i].file_type = NULL
    /\ last.out = <<>>
    /\ LastState = END

\* C9: a row is created only by skip_file or get_file_attachment taken in
\* GET_FILE, after this run of the Add conversation accepted a date-time and
\* then a description; the row has the sender as owner, the canonical
\* encoding of that date-time, that description verbatim, and the attachment
\* of the message (none on /skip).
C9_Created ==
    [][Len(db'.rows) # Len(db.rows)
        => LET u == last'.user
               row == db'.rows[Len(db'.rows)]
               a == last'.upd.att
           IN  /\ Len(db'.rows) = Len(db.rows) + 1
               /\ SubSeq(db'.rows, 1, Len(db.rows)) = db.rows
               /\ last'.callback \in {"skip_file", "get_file_attachment"}
               /\ conversations["conv_handler_add"][u] = GET_FILE
               /\ conversations'["conv_handler_add"][u] = END
               /\ addDraft[u].datetime # None
               /\ addDraft[u].text # None
               /\ parse_datetime(addDraft[u].datetime) # None
               /\ row.user_id = u
               /\ row.datetime = format_datetime(parse_datetime(addDraft[u].datetime))
               /\ row.event_text = addDraft[u].text
               /\ IF last'.callback = "skip_file"
                  THEN row.file_id = NULL /\ row.file_type = NULL /\ row.file_name = NULL
                  ELSE /\ row.file_type = a
                       /\ row.file_id = AttFileId(a)
                       /\ row.file_name = AttFileName(a)]_vars

\* C9 witness: a user's second Add conversation has created a row whose
\* date-time was typed with two spaces and differs from the first one's.
C9_Witness ==
    /\ LastIs("skip_file")
    /\ Len(db.rows) = 2
    /\ db.rows[1].user_id = LastUser
    /\ db.rows[2].user_id = LastUser
    /\ db.rows[1].datetime = DtText(0)
    /\ db.rows[2].datetime = DtText(1)
    /\ addDraft[LastUser].datetime = DtSpaced(1)

\* C10 (as claimed): in GET_DATETIME and in EDIT_DATETIME a text that does not
\* parse, or whose date-time is not later than now (equal included), keeps the
\* state, the user_data and the table, each with its own message; any other
\* text advances.
C10_OnlyFutureAdvances ==
    [][(nupd' # nupd /\ last'.callback \in {"get_datetime", "edit_datetime"})
        => LET dt == parse_datetime(last'.upd.text)
               h == last'.handler
               u == last'.user
           IN  IF dt = None
               THEN /\ conversations' = conversations /\ user_data' = user_data /\ db' = db
                    /\ last'.out = <<Reply("bad_format")>>
               ELSE IF ~DtLess(Now, dt)
               THEN /\ conversations' = conversations /\ user_data' = user_data /\ db' = db
                    /\ last'.out = <<Reply("must_be_future")>>
               ELSE conversations'[h][u] # conversations[h][u]]_vars

\* C10, what the code does: a date-time equal to now was accepted.
C10_EqualAccepted ==
    /\ LastIs("get_datetime")
    /\ LastState = GET_TEXT
    /\ parse_datetime(LastText) = Now

\* C11 (as claimed): whenever a step writes an event's date-time to the table
\* (a new row, or a row's datetime column changed), that date-time is later
\* than datetime.now() of the step.
C11_WhenLaterAtWrite ==
    [][\A i \in 1..Len(db'.rows) :
          (i > Len(db.rows) \/ db'.rows[i].datetime # db.rows[i].datetime)
              => DtLess(Now, parse_datetime(db'.rows[i].datetime))]_vars

\* C11, what the code does: /skip has saved a date-time that was later than
\* now when get_datetime accepted it and is earlier than now when it is written.
C11_StaleWhenWritten ==
    /\ LastIs("skip_file")
    /\ db.rows # <<>>
    /\ LET dt == parse_datetime(db.rows[Len(db.rows)].datetime)
       IN  /\ DtLess(NowAt(addDraft[LastUser].at), dt)
           /\ DtLess(dt, Now)

\* the step just taken is a terminal step of a flow that reaches its store call
StoreStep(l, now) ==
    \/ l.callback \in {"skip_file", "remove_file", "edit_text"}
    \/ l.callback \in {"get_file_attachment", "edit_file"} /\ AttFileType(l.upd.att) # NULL
    \/ /\ l.callback = "edit_datetime"
       /\ parse_datetime(l.upd.text) # None
       /\ ~DtLess(parse_datetime(l.upd.text), now)
    \/ l.callback = "get_event_id" /\ PyInt(l.upd.text) # ValueError

\* C12 (as claimed): when the store call of a terminal step fails (create in
\* Add, an update in Edit, the lookup in Fetch-File), the conversation ends and
\* the user is sent a failure message.
C12_FailureEndsFlow ==
    [][(nupd' # nupd /\ ~db.ok /\ StoreStep(last', Now))
          => /\ conversations'[last'.handler][last'.user] = END
             /\ last'.out # <<>>]_vars

\* C12, what the code does: the INSERT of /skip failed, nothing was sent and
\* the Add conversation still waits in GET_FILE.
C12_StillWaiting ==
    /\ LastIs("skip_file")
    /\ ~db.ok
    /\ last.out = <<>>
    /\ LastState = GET_FILE
    /\ Len(db.rows) = Len(InitRows)

\* C12, the part the code keeps: a failing lookup of Fetch-File is reported
\* and ends the conversation.
C12_FetchFileFailureEnds ==
    [][(nupd' # nupd /\ ~db.ok /\ last'.callback = "get_event_id"
          /\ PyInt(last'.upd.text) # ValueError)
          => /\ conversations'["conv_handler_file"][last'.user] = END
             /\ last'.out = <<Reply("error_fetching_file")>>]_vars

\* a plain text message, or an attachment of a kind the bot does not support
OtherInput(upd) ==
    upd.kind = "text" \/ (upd.kind = "attachment" /\ AttFileType(upd.att) = NULL)

\* the states that wait for an attachment
FileStates == {<<"conv_handler_add", GET_FILE>>, <<"conv_handler_edit", EDIT_FILE>>}

\* C13 (as claimed): while the Add conversation waits in GET_FILE (the Edit
\* conversation in EDIT_FILE), a plain text or an unsupported attachment is
\* answered with the re-prompt, the conversation keeps its state and no row
\* is created.
C13_OtherInputReprompts ==
    [][(nupd' # nupd /\ OtherInput(last'.upd))
          => \A w \in FileStates :
                conversations[w[1]][last'.user] = w[2]
                    => /\ last'.out = <<Reply("unsupported_file")>>
                       /\ conversations'[w[1]][last'.user] = w[2]
                       /\ Len(db'.rows) = Len(db.rows)]_vars

\* C13, what the code does: a text sent in GET_FILE is accepted by no handler
\* and is not answered.
C13_TextNotAnswered ==
    /\ last.callback = NoHandler
    /\ last.upd.kind = "text"
    /\ conversations["conv_handler_add"][LastUser] = GET_FILE
    /\ last.out = <<>>

\* C13, the part the code keeps: an unsupported attachment that
\* get_file_attachment or edit_file receives is answered with the re-prompt,
\* the state is kept and no row is created or changed.
C13_UnsupportedKindReprompts ==
    [][(nupd' # nupd /\ last'.callback \in {"get_file_attachment", "edit_file"}
          /\ AttFileType(last'.upd.att) = NULL)
          => /\ last'.out = <<Reply("unsupported_file")>>
             /\ conversations' = conversations
             /\ db' = db]_vars

\* the terminal callbacks of the Edit conversation
EditWrites == {"edit_datetime", "edit_text", "edit_file", "remove_file"}

\* row r1 is row r0 with at most the columns of the callback's field group
\* rewritten; the three file columns are those of the message, or all NULL
SameButGroup(cb, a, r0, r1) ==
    IF cb = "edit_datetime" THEN r1 = [r0 EXCEPT !.datetime = r1.datetime]
    ELSE IF cb = "edit_text" THEN r1 = [r0 EXCEPT !.event_text = r1.event_text]
    ELSE IF cb = "edit_file"
    THEN r1 = [r0 EXCEPT !.file_id = AttFileId(a), !.file_type = a,
                         !.file_name = AttPickedName(a)]
    ELSE r1 = [r0 EXCEPT !.file_id = NULL, !.file_type = NULL, !.file_name = NULL]

\* in this step the table changed in the event with id k only, and there in
\* the callback's field group only
OnlyGroupOf(k, l, d0, d1) ==
    /\ Len(d1.rows) = Len(d0.rows)
    /\ \E i \in 1..Len(d0.rows) : d0.rows[i].id = k
    /\ \A i \in 1..Len(d0.rows) :
          IF d0.rows[i].id = k
          THEN SameButGroup(l.callback, l.upd.att, d0.rows[i], d1.rows[i])
          ELSE d1.rows[i] = d0.rows[i]

\* C14 (as claimed): the step that completes an Edit conversation changes one
\* field group of the event this conversation resolved (the three file
\* columns together) and leaves every other event of the table unchanged.
C14_OneEventOneGroup ==
    [][(nupd' # nupd /\ last'.callback \in EditWrites
          /\ conversations'["conv_handler_edit"][last'.user] = END)
          => OnlyGroupOf(editTarget[last'.user][1], last', db, db')]_vars

\* C14, what the code does: the Edit conversation resolved event 1 and its
\* last step rewrote the file columns of event 2, leaving event 1 as it was.
C14_OtherEventChanged ==
    /\ LastIs("edit_file")
    /\ LastState = END
    /\ editTarget[LastUser] = <<1>>
    /\ db.rows[1] = InitRows[1]
    /\ db.rows[2] # InitRows[2]
    /\ db.rows[2].event_text = InitRows[2].event_text

\* C14, the part the code keeps: the completing step changes nothing but one
\* field group of the row whose id user_data["edit_id"] holds at that step
\* (no row when no row has that id).
C14_OneFieldGroup ==
    [][(nupd' # nupd /\ last'.callback \in EditWrites
          /\ conversations'["conv_handler_edit"][last'.user] = END)
          => LET k == user_data[last'.user].edit_id[1]
             IN  \/ OnlyGroupOf(k, last', db, db')
                 \/ (k \notin Ids(db) /\ db' = db)]_vars

\* the kinds of attachment an event may have
Kinds == {"document", "photo", "audio", "voice"}

\* C15: every stored event has either no file_id, no file_type and no
\* file_name, or a file_id and a file_type among document, photo, audio and
\* voice; an event of kind photo or voice has no file_name.
C15_AttachmentInvariant ==
    \A i \in 1..Len(db.rows) :
        LET r == db.rows[i]
        IN  /\ \/ (r.file_id = NULL /\ r.file_type = NULL /\ r.file_name = NULL)
               \/ (r.file_id # NULL /\ r.file_type \in Kinds)
            /\ r.file_type \in {"photo", "voice"} => r.file_name = NULL

\* C15 witness: the document of event 1 was replaced by a voice message
\* through the Edit conversation, and the row has lost the document's name.
C15_Witness ==
    /\ LastIs("edit_file")
    /\ LastState = END
    /\ db.rows[1].file_type = "voice"
    /\ db.rows[1].file_id = "voice_id"
    /\ db.rows[1].file_name = NULL

\* the messages with which the Edit conversation reports a success
EditSuccess == {"datetime_updated", "text_updated", "file_updated", "file_removed"}

\* C16 (as claimed): a completing step of the Edit conversation whose target
\* id is the id of no stored event changes nothing and reports an error,
\* never a success.
C16_MissingIdReportsError ==
    [][(nupd' # nupd /\ last'.callback \in EditWrites
          /\ conversations'["conv_handler_edit"][last'.user] = END
          /\ user_data[last'.user].edit_id[1] \notin Ids(db))
          => /\ db' = db
             /\ last'.out # <<>>
             /\ \A i \in 1..Len(last'.out) : last'.out[i].body \notin EditSuccess]_vars

\* C16, what the code does: edit_file ran its UPDATE for an id that no row
\* has, changed nothing and reported that the file was updated.
C16_SilentSuccess ==
    /\ LastIs("edit_file")
    /\ user_data[LastUser].edit_id # None
    /\ user_data[LastUser].edit_id[1] \notin Ids(db)
    /\ last.out = <<Reply("file_updated")>>
    /\ db.rows = InitRows

\* the list of the user as list_events last fetched it
ListOf(u) == user_data[u].events_list

\* C17 (as claimed): the events that list_events fetched are in strictly
\* increasing order of their decoded date-times.
C17_ListChronological ==
    \A u \in Users : \A i \in 1..(Len(ListOf(u)) - 1) :
        DtLess(parse_datetime(ListOf(u)[i].datetime), parse_datetime(ListOf(u)[i + 1].datetime))

\* C17, what the code does: /list has put an event before an earlier one,
\* because its DDMMYY HHMM text is the smaller text.
C17_RawTextOrder ==
    /\ LastIs("list_events")
    /\ \E i \in 1..(Len(ListOf(LastUser)) - 1) :
          /\ DtLess(parse_datetime(ListOf(LastUser)[i + 1].datetime),
                    parse_datetime(ListOf(LastUser)[i].datetime))
          /\ StrLess(ListOf(LastUser)[i].datetime, ListOf(LastUser)[i + 1].datetime)

\* a button with this callback_data is on the keyboard
Shown(keyboard, b) ==
    \E r \in 1..Len(keyboard) : \E c \in 1..Len(keyboard[r]) : keyboard[r][c] = b

\* C18: a page rendered for a list of n events at page p, 0 <= p < ceil(n/5),
\* holds the events at positions 5p+1 .. min(5p+5, n) of the list; "previous"
\* is shown iff n > 5 and p > 0, "next" iff n > 5 and p is not the last page;
\* the download-files, edit and delete buttons are always shown.
C18_PageAndButtons ==
    (last.callback \in {"list_events", "handle_pagination"} /\ last.out # <<>>
        /\ last.out[1].body = "events_page")
        => LET L == ListOf(LastUser)
               n == Len(L)
               p == user_data[LastUser].current_page[1]
               pages == (n + 4) \div 5
               hi == IF 5 * p + 5 < n THEN 5 * p + 5 ELSE n
               v == last.view
           IN  (0 <= p /\ p < pages)
               => /\ Len(v.entries) = hi - 5 * p
                  /\ \A j \in 1..Len(v.entries) : v.entries[j] = Entry(L[5 * p + j])
                  /\ v.page = p + 1 /\ v.total = pages
                  /\ Shown(v.keyboard, "prev_page") <=> (n > 5 /\ p > 0)
                  /\ Shown(v.keyboard, "next_page") <=> (n > 5 /\ p < pages - 1)
                  /\ Shown(v.keyboard, "get_files")
                  /\ Shown(v.keyboard, "edit_event")
                  /\ Shown(v.keyboard, "delete_event")

\* C18 witness: the second of three pages was rendered: five events, with
\* "previous" and "next".
C18_Witness ==
    /\ LastIs("handle_pagination")
    /\ last.view.page = 2
    /\ last.view.total = 3
    /\ Len(last.view.entries) = 5
    /\ Shown(last.view.keyboard, "prev_page")
    /\ Shown(last.view.keyboard, "next_page")

\* C19: handling an update of one user leaves every other user's session as
\* it was: the state in each conversation, the Add draft, the edit target,
\* the page cursor, the cached list and the reference to the list message.
C19_OtherSessionsUnchanged ==
    [][\A b \in Users \ {last'.user} :
          /\ \A h \in ConvHandlers : conversations'[h][b] = conversations[h][b]
          /\ user_data'[b] = user_data[b]]_vars

\* C19 witness: user 2 has fetched a list while user 1 has a page cursor, a
\* list message and an Add conversation in progress.
C19_Witness ==
    /\ LastIs("list_events")
    /\ LastUser = 2
    /\ user_data[2].events_message # None
    /\ user_data[1].current_page # None
    /\ user_data[1].events_message # None
    /\ user_data[1].events_message # user_data[2].events_message
    /\ conversations["conv_handler_add"][1] = GET_DATETIME

\* exactly two whitespace-separated tokens, of exactly 6 and exactly 4
\* characters, all of them decimal digits
WellFormed(t) ==
    LET parts == Split(t)
    IN  /\ Len(parts) = 2
        /\ Len(parts[1]) = 6
        /\ Len(parts[2]) = 4
        /\ \A p \in 1..2 : \A i \in 1..Len(parts[p]) : IsDigit(parts[p][i])

\* C20 (as claimed): parse_datetime returns None for every text that is not
\* well formed, and get_datetime answers it with the format error.
C20_MalformedRejected ==
    (LastIs("get_datetime") /\ ~WellFormed(LastText))
        => /\ parse_datetime(LastText) = None
           /\ last.out = <<Reply("bad_format")>>

\* C20, what the code does: a text whose date token carries a sign was parsed
\* and accepted as the date-time of the event.
C20_SignedAccepted ==
    /\ LastIs("get_datetime")
    /\ LastText[1] = "+"
    /\ LastState = GET_TEXT
    /\ parse_datetime(LastText) = <<2031, 1, 1, 0, 0, 0, 0>>
    /\ user_data[LastUser].datetime = <<"0", "1", "0", "1", "3", "1", " ", "0", "0", "0", "0">>

\* C20, the part the code keeps: a text of the wrong token count, with a
\* character that int() does not read, or out of the calendar's ranges
\* (day 31 in April, hour 24, minute 60) is rejected.
C20_CountAndRangeRejected ==
    LastIs("get_datetime")
        => LET parts == Split(LastText)
           IN  ( \/ Len(parts) # 2
                 \/ \E i \in 1..Len(LastText) : LastText[i] = "a"
                 \/ (WellFormed(LastText) /\
                       ~DatetimeOk(2000 + 10 * DigitVal(parts[1][5]) + DigitVal(parts[1][6]),
                                   10 * DigitVal(parts[1][3]) + DigitVal(parts[1][4]),
                                   10 * DigitVal(parts[1][1]) + DigitVal(parts[1][2]),
                                   10 * DigitVal(parts[2][1]) + DigitVal(parts[2][2]),
                                   10 * DigitVal(parts[2][3]) + DigitVal(parts[2][4]))) )
               => last.out = <<Reply("bad_format")>>

\* 6 digits, one space, 4 digits
FixedWidth(t) ==
    /\ Len(t) = 11
    /\ t[7] = " "
    /\ \A i \in (1..11) \ {7} : IsDigit(t[i])

\* C21: for every date-time dt of the years 2000..2099, format_datetime(dt)
\* has the fixed-width form and parse_datetime gives dt back: get_datetime,
\* sent that text, has parsed dt, and stores the same text when it accepts.
C21_RoundTrip ==
    LastIs("get_datetime")
        => \A dt \in CodecDatetimes :
              LastText = format_datetime(dt)
                  => /\ FixedWidth(LastText)
                     /\ parse_datetime(LastText) = dt
                     /\ last.out # <<Reply("bad_format")>>
                     /\ LastState = GET_TEXT => user_data[LastUser].datetime = LastText

\* C21 witness: get_datetime has parsed and accepted the text of the last
\* minute of 2099.
C21_Witness ==
    /\ LastIs("get_datetime")
    /\ LastText = format_datetime(<<2099, 12, 31, 23, 59, 0, 0>>)
    /\ parse_datetime(LastText) = <<2099, 12, 31, 23, 59, 0, 0>>
    /\ LastState = GET_TEXT
    /\ user_data[LastUser].datetime = LastText

\* the update was a request to render the list: a page button, or /list
\* with at least one event
Rerender(l) ==
    \/ l.callback = "handle_pagination"
    \/ l.callback = "list_events" /\ l.out # <<Reply("no_events")>>

\* the list message was edited in place, or a new one was sent and recorded
RenderedBy(l, before, after, mid) ==
    /\ Len(l.out) = 1
    /\ l.out[1].body = "events_page"
    /\ \/ /\ l.out[1].op = "edit_message_text"
          /\ before # None
          /\ l.view.message = before
          /\ after = before
       \/ /\ l.out[1].op = "reply_text"
          /\ l.view.message = <<mid>>
          /\ after = <<mid>>

\* C22 (as claimed): every re-render of the list, by /list or by a page
\* button, edits the list message in place or sends a new list message and
\* records it as the last one; it never ends with no list and an error.
C22_RerenderAlwaysShows ==
    [][(nupd' # nupd /\ Rerender(last'))
          => RenderedBy(last', user_data[last'.user].events_message,
                        user_data'[last'.user].events_message, nupd')]_vars

\* C22, what the code does: a page button was pressed with a cursor and a
\* list message on record, the edit failed, and nothing was sent: the
\* fallback update.message.reply_text raised, update.message being None.
C22_ButtonPressRaises ==
    /\ LastIs("handle_pagination")
    /\ user_data[LastUser].current_page # None
    /\ user_data[LastUser].events_message # None
    /\ user_data[LastUser].events_list # <<>>
    /\ last.out = <<>>

\* C22, the part that holds: a re-render by the /list command always ends
\* with a list message, edited in place or new and recorded.
C22_ListCommandRerenders ==
    [][(nupd' # nupd /\ last'.callback = "list_events" /\ Rerender(last'))
          => RenderedBy(last', user_data[last'.user].events_message,
                        user_data'[last'.user].events_message, nupd')]_vars

\* the cursor is a page of the cached list
InRange(u) ==
    LET p == user_data[u].current_page[1]
        pages == (Len(ListOf(u)) + per_page - 1) \div per_page
    IN  0 <= p /\ p < pages

\* C23 (as claimed): after a press on a page button, whenever the stored
\* cursor is outside 0 .. last page, the rendered page block holds no event.
C23_OutOfRangePageEmpty ==
    (LastIs("handle_pagination") /\ user_data[LastUser].current_page # None
        /\ ~InRange(LastUser) /\ last.out # <<>>)
        => last.view.entries = <<>>

\* C23, what the code does: two presses on "previous" from the first page of
\* a list of more than five events leave the cursor at -2, and the slice
\* events[-10:-5] is not empty: the page shows events from the head of the list.
C23_EventsOnPageMinusTwo ==
    /\ LastIs("handle_pagination")
    /\ user_data[LastUser].current_page = <<-2>>
    /\ Len(ListOf(LastUser)) > per_page
    /\ last.out # <<>>
    /\ last.view.entries # <<>>
    /\ last.view.entries[1] = Entry(ListOf(LastUser)[1])

\* C23, the part that holds: a cursor of -1, and a cursor past the last
\* page, render a page block with no event.
C23_NearOutOfRangeEmpty ==
    (LastIs("handle_pagination") /\ user_data[LastUser].current_page # None
        /\ last.out # <<>>
        /\ LET p == user_data[LastUser].current_page[1]
           IN  p = -1 \/ p * per_page >= Len(ListOf(LastUser)))
        => last.view.entries = <<>>

\* a list page was rendered by the last update
PageRendered ==
    /\ last.callback \in {"list_events", "handle_pagination"}
    /\ last.out # <<>>
    /\ last.out[1].body = "events_page"

\* the entries of page p of the owner's events as the store holds them
StorePage(u, p) ==
    LET page_events == PageEvents(SqlSelectList(db, u), p)
    IN  [i \in 1..Len(page_events) |-> Entry(page_events[i])]

\* C24 (as claimed): every rendered list page, also one rendered after a
\* press on a page button, shows the owner's events as the store holds them
\* at that moment.
C24_PageShowsStore ==
    PageRendered
        => last.view.entries = StorePage(LastUser, user_data[LastUser].current_page[1])

\* C24, what the code does: a page rendered after a press on a page button
\* shows an event with the description it had at the last /list, while the
\* store holds the description written by edit_text since.
C24_StalePage ==
    /\ LastIs("handle_pagination")
    /\ PageRendered
    /\ \E j \in 1..Len(last.view.entries) : \E i \in 1..Len(db.rows) :
          /\ db.rows[i].id = last.view.entries[j].id
          /\ db.rows[i].user_id = LastUser
          /\ db.rows[i].event_text # last.view.entries[j].text

\* C24, the part that holds: a page rendered by the /list command shows
\* the store.
C24_ListCommandShowsStore ==
    (PageRendered /\ LastIs("list_events"))
        => last.view.entries = StorePage(LastUser, 0)

\* the Add conversation of the user is over or was never started
AddTerminal(u) == conversations["conv_handler_add"][u] = END

\* C25 (as claimed): whenever the Add flow of a user is in its terminal
\* state, the session of that user holds no draft date-time and no draft
\* description.
C25_NoDraftAtEnd ==
    \A u \in Users :
        AddTerminal(u) => user_data[u].datetime = None /\ user_data[u].text = None

\* C25, what the code does: the Add flow was completed by /skip, the event
\* is stored, and the session still holds the date-time and the description
\* of that event.
C25_DraftKeptAfterSkip ==
    /\ LastIs("skip_file")
    /\ AddTerminal(LastUser)
    /\ last.out = <<Reply("saved")>>
    /\ user_data[LastUser].datetime # None
    /\ user_data[LastUser].text # None
    /\ \E i \in 1..Len(db.rows) :
          /\ db.rows[i].user_id = LastUser
          /\ db.rows[i].datetime = user_data[LastUser].datetime
          /\ db.rows[i].event_text = user_data[LastUser].text

\* C25, what the code does: the same after a completion by an attachment.
C25_DraftKeptAfterAttachment ==
    /\ LastIs("get_file_attachment")
    /\ AddTerminal(LastUser)
    /\ user_data[LastUser].datetime # None
    /\ user_data[LastUser].text # None

\* C25, the part that holds: a session whose Add flow was never started
\* holds no draft.
C25_NoDraftBeforeFirstAdd ==
    \A u \in Users :
        addDraft[u] = NoDraft /\ AddTerminal(u)
            => user_data[u].datetime = None /\ user_data[u].text = None

\* every update a user can send: the commands, texts, attachments and the
\* buttons of the keyboards the bot sends
AnyUpdate ==
    {Command(c) : c \in {"start", "list", "today", "add", "skip", "file", "edit",
                         "remove_file", "delete"}}
      \cup {TextMsg(t) : t \in Texts}
      \cup {AttMsg(a) : a \in Attachments}
      \cup {Callback(b) : b \in EditPattern \cup ConfirmPattern \cup PagePattern
                                \cup {"get_files", "delete_event", "confirm_delete"}}

\* the callback of ConversationHandler h for the update in the state, if any
ConvAccepts(h, state, upd) ==
    IF h = "conv_handler_add" THEN conv_handler_add(state, upd)
    ELSE IF h = "conv_handler_file" THEN conv_handler_file(state, upd)
    ELSE IF h = "conv_handler_edit" THEN conv_handler_edit(state, upd)
    ELSE conv_handler_delete(state, upd)

\* some update of the user is handled by the flow in its present state
Responsive(h, u) == \E upd \in AnyUpdate : ConvAccepts(h, Cur(u, h), upd) # NoHandler

\* C26 (as claimed): no flow has a reachable state in which no update of
\* the user is handled: in every state of the Add, Fetch-File, Edit and
\* Delete flows some update is handled by the flow, and a flow at its end
\* takes its entry command.
C26_NoDeadState ==
    \A u \in Users : \A h \in ConvHandlers : Responsive(h, u)

\* C26, what the code does: the Delete flow is in EDIT_CHOICE, where
\* conv_handler_delete handles no update at all, /delete included: the flow
\* cannot end and cannot be started again.
C26_DeleteFlowDead ==
    \E u \in Users :
        /\ Cur(u, "conv_handler_delete") = EDIT_CHOICE
        /\ \A upd \in AnyUpdate : conv_handler_delete(EDIT_CHOICE, upd) = NoHandler
        /\ Route(u, Command("delete")) = <<NoHandler, NoHandler>>

\* C26, what the code does: once in EDIT_CHOICE the Delete flow stays there.
C26_DeleteStaysDead ==
    [][\A u \in Users :
          Cur(u, "conv_handler_delete") = EDIT_CHOICE
              => conversations'["conv_handler_delete"][u] = EDIT_CHOICE]_vars

\* C26, the part that holds: the Add, Fetch-File and Edit flows handle some
\* update in every state they reach, and every flow at its end takes its
\* entry command.
C26_OtherFlowsResponsive ==
    \A u \in Users :
        /\ \A h \in ConvHandlers \ {"conv_handler_delete"} : Responsive(h, u)
        /\ \A h \in ConvHandlers : Cur(u, h) = END => Responsive(h, u)

====
